---------------------------- MODULE Spec2Model ----------------------------
(***************************************************************************)
(* A model of src/src/iotx.ts: the Iotx client.                            *)
(*                                                                         *)
(*   - sendRawTransaction: the legacy-transaction translation pipeline     *)
(*     (decode, re-signing tuple, public-key recovery, recipient           *)
(*     classification, envelope, submission);                              *)
(*   - the constructor's deferred fetch of the signer's accounts and       *)
(*     tryGetAccount with the operations that start with it.               *)
(*                                                                         *)
(* Byte strings (Buffer) are sequences of 0..255.  JavaScript runs each    *)
(* callback to completion, so one action is the code between two awaits.   *)
(***************************************************************************)
EXTENDS Integers, Sequences, FiniteSets, TLC

\* ------------------------------------------------------------------ bounds
\* The largest number of fields of a generated input list (9 is a legacy
\* transaction; 10 is one field too many).
MaxArity == 10
\* Chain ids 0..MaxChainID are tried (and 4689, a two-byte one).
MaxChainID == 2
\* The number of sendRawTransaction calls in flight in SpecConcurrent.
NumCalls == 2
\* The number of account operations in flight in SpecAccounts.
NumOps == 1

\* ---------------------------------------------------------------- buffers
Min(a, b) == IF a < b THEN a ELSE b

\* Buffer.prototype.slice(from, to): 0-based, end exclusive, clipped.
BufSlice(b, from, to) == SubSeq(b, from + 1, Min(to, Len(b)))

RECURSIVE IntToBytes(_)
\* The big-endian bytes of n > 0 without leading zeros; none for 0.
IntToBytes(n) == IF n = 0 THEN << >> ELSE Append(IntToBytes(n \div 256), n % 256)

\* ethereumjs-util toBuffer(number) = intToBuffer: the hex digits of the
\* number padded to an even count, so 0 is the one byte 00.
ToBuffer(n) == IF n = 0 THEN <<0>> ELSE IntToBytes(n)

RECURSIVE BufferToInt(_)
\* ethereumjs-util bufferToInt: big-endian, the empty buffer is 0.
BufferToInt(b) ==
    IF b = << >> THEN 0
    ELSE 256 * BufferToInt(SubSeq(b, 1, Len(b) - 1)) + b[Len(b)]

RECURSIVE UnpadBuffer(_)
\* ethereumjs-util unpadBuffer: leading zero bytes stripped.
UnpadBuffer(b) ==
    IF b # << >> /\ b[1] = 0 THEN UnpadBuffer(Tail(b)) ELSE b

\* ethereumjs-util setLength(msg, n) = setLengthLeft: left-padded with zeros
\* to n bytes, or the last n bytes of a longer buffer.
SetLength(b, n) ==
    IF Len(b) < n THEN [i \in 1..(n - Len(b)) |-> 0] \o b
    ELSE SubSeq(b, Len(b) - n + 1, Len(b))

\* A BigNumber: an integer, or not-a-number.
BigNum(k) == [nan |-> FALSE, n |-> k]

BigNaN == [nan |-> TRUE, n |-> 0]

\* new BigNumber(`0x${buf.toString("hex")}`): the empty buffer gives "0x",
\* which is not a number.
BigNumberHex(b) == IF b = << >> THEN BigNaN ELSE BigNum(BufferToInt(b))

\* BigNumber.minus
BigMinus(x, k) == IF x.nan THEN BigNaN ELSE BigNum(x.n - k)

DigitChar(d) == <<"0", "1", "2", "3", "4", "5", "6", "7", "8", "9">>[d + 1]

RECURSIVE Digits(_)
Digits(k) ==
    IF k < 10 THEN <<DigitChar(k)>> ELSE Append(Digits(k \div 10), DigitChar(k % 10))

\* BigNumber.toString(): the decimal digits, "NaN" for not-a-number.
BigToString(x) ==
    IF x.nan THEN <<"NaN">>
    ELSE IF x.n < 0 THEN <<"-">> \o Digits(0 - x.n) ELSE Digits(x.n)

\* -------------------------------------------------------------------- rlp
RlpEncodeLength(len, offset) ==
    IF len < 56 THEN <<offset + len>>
    ELSE LET hl == IntToBytes(len) IN <<offset + 55 + Len(hl)>> \o hl

RlpEncodeItem(b) ==
    IF Len(b) = 1 /\ b[1] < 128 THEN b
    ELSE RlpEncodeLength(Len(b), 128) \o b

RECURSIVE RlpConcat(_)
RlpConcat(items) ==
    IF items = << >> THEN << >>
    ELSE RlpEncodeItem(Head(items)) \o RlpConcat(Tail(items))

\* rlp.encode of an array of buffers.
RlpEncode(items) ==
    LET payload == RlpConcat(items)
    IN  RlpEncodeLength(Len(payload), 192) \o payload

\* The result of the decoder: ok = FALSE is a throw; isList tells an array
\* from a Buffer; data is the bytes, or the sequence of the items.
RlpFail == [ok |-> FALSE, isList |-> FALSE, data |-> << >>, remainder |-> << >>]

RlpBytes(d, rest) == [ok |-> TRUE, isList |-> FALSE, data |-> d, remainder |-> rest]

RlpList(d, rest) == [ok |-> TRUE, isList |-> TRUE, data |-> d, remainder |-> rest]

RECURSIVE RlpDecodeOne(_)
RECURSIVE RlpDecodeItems(_)
\* rlp _decode: one item off the front of input.  A short string or a short
\* list cut off by the end of the input is taken as far as it goes.
RlpDecodeOne(input) ==
    LET firstByte == input[1] IN
    IF firstByte <= 127 THEN RlpBytes(BufSlice(input, 0, 1), BufSlice(input, 1, Len(input)))
    ELSE IF firstByte <= 183 THEN
        LET length == firstByte - 127
            data == IF firstByte = 128 THEN << >> ELSE BufSlice(input, 1, length)
        IN  IF length = 2 /\ data # << >> /\ data[1] < 128 THEN RlpFail
            ELSE RlpBytes(data, BufSlice(input, length, Len(input)))
    ELSE IF firstByte <= 191 THEN
        LET llength == firstByte - 182
            length == BufferToInt(BufSlice(input, 1, llength))
            data == BufSlice(input, llength, length + llength)
        IN  IF Len(data) < length THEN RlpFail
            ELSE RlpBytes(data, BufSlice(input, length + llength, Len(input)))
    ELSE IF firstByte <= 247 THEN
        LET length == firstByte - 191
            inner == RlpDecodeItems(BufSlice(input, 1, length))
        IN  IF inner.ok THEN RlpList(inner.data, BufSlice(input, length, Len(input)))
            ELSE RlpFail
    ELSE
        LET llength == firstByte - 246
            length == BufferToInt(BufSlice(input, 1, llength))
            totalLength == llength + length
            innerRemainder == BufSlice(input, llength, totalLength)
            inner == RlpDecodeItems(innerRemainder)
        IN  IF totalLength > Len(input) \/ innerRemainder = << >> THEN RlpFail
            ELSE IF inner.ok THEN RlpList(inner.data, BufSlice(input, totalLength, Len(input)))
            ELSE RlpFail

\* The while loop of _decode over a list's payload.
RlpDecodeItems(innerRemainder) ==
    IF innerRemainder = << >> THEN RlpList(<< >>, << >>)
    ELSE LET d == RlpDecodeOne(innerRemainder) IN
         IF ~d.ok THEN RlpFail
         ELSE LET rest == RlpDecodeItems(d.remainder) IN
              IF rest.ok THEN RlpList(<<d.data>> \o rest.data, << >>) ELSE RlpFail

\* rlp.decode(input): the empty input is the empty Buffer; bytes left over
\* after the first item are an error.
RlpDecode(input) ==
    IF input = << >> THEN RlpBytes(<< >>, << >>)
    ELSE LET decoded == RlpDecodeOne(input) IN
         IF decoded.ok /\ decoded.remainder # << >> THEN RlpFail ELSE decoded

\* -------------------------------------------------- sendRawTransaction
\* A string that fromBytes(...).string() returns: the human-readable part
\* and the address bytes it encodes.  "" has neither.
EmptyString == [hrp |-> "", payload |-> << >>]

\* crypto/address fromBytes(bytes).string(): an address has 20 bytes.
FromBytes(bytes) ==
    IF Len(bytes) = 20 THEN [ok |-> TRUE, string |-> [hrp |-> "io", payload |-> bytes]]
    ELSE [ok |-> FALSE, string |-> EmptyString]

\* keccakFromHexString(`0x${raw.toString("hex")}`): the digest of raw.
Keccak(raw) == [keccak |-> raw]

\* What a call throws: name says which statement threw.
Throw(name) == [ok |-> FALSE, error |-> name]

\* ecrecover(msgHash, v, r, s, chainId) of ethereumjs-util.  r and s are the
\* 8th and 9th fields of tx, missing (undefined) in a shorter list.  The
\* recovery id is v - (2 * chainId + 35), and v - 27 when chainId is 0; the
\* curve's answer for a pair (r, s) is the caller's recoverable.
CalculateSigRecovery(v, chainId) ==
    IF chainId # 0 THEN v - (2 * chainId + 35) ELSE v - 27

Ecrecover(msgHash, v, tx, chainId, recoverable) ==
    IF Len(tx) < 9 THEN Throw("TypeError")
    ELSE LET recovery == CalculateSigRecovery(v, chainId) IN
         IF recovery \notin {0, 1} THEN Throw("Invalid signature v value")
         ELSE IF ~recoverable THEN Throw("ecdsaRecover")
         ELSE [ok |-> TRUE,
               publicKey |-> [hash |-> msgHash, recovery |-> recovery,
                              r |-> SetLength(tx[8], 32), s |-> SetLength(tx[9], 32)]]

\* NormalizedV taking v down to the recovery id.
NormalizedV_RecoveryId(v, chainID) == BigMinus(v, chainID * 2 + 35)

\* Line 102: v.minus(req.chainID * 2 + 8).
NormalizedV(v, chainID) == BigMinus(v, chainID * 2 + 8)

\* ResignTuple with the envelope's chain id 0 in place of the request's.
ResignTuple_Sentinel(tx, chainID) ==
    LET pad == UnpadBuffer(ToBuffer(0))
    IN  BufSlice(tx, 0, 6) \o <<ToBuffer(0), pad, pad>>

\* ResignTuple keeping the original r and s.
ResignTuple_KeepsSignature(tx, chainID) ==
    BufSlice(tx, 0, 6) \o <<ToBuffer(chainID), tx[8], tx[9]>>

\* Lines 104-105: the tuple that is encoded and hashed.
ResignTuple(tx, chainID) ==
    LET pad == UnpadBuffer(ToBuffer(0))
    IN  BufSlice(tx, 0, 6) \o <<ToBuffer(chainID), pad, pad>>

\* Lines 93-113, the code before the first await: the locals it leaves, or
\* what it throws.  decoded is rlp.decode's result.
Prefix(r, recoverable) ==
    LET decoded == RlpDecode(r.data)
        tx == decoded.data
    IN
    IF ~decoded.ok THEN Throw("rlp")
    \* tx[0..2].toString("hex"): of undefined, or of a Buffer's byte.
    ELSE IF ~decoded.isList \/ Len(tx) < 3 THEN Throw("TypeError")
    ELSE IF Len(tx) < 4 THEN Throw("TypeError")
    ELSE IF Len(tx[4]) > 0 /\ ~FromBytes(tx[4]).ok THEN Throw("invalid address length")
    \* tx[4] and tx[6], 0-based; data = tx[5] may be undefined.
    ELSE IF Len(tx) < 7 THEN Throw("TypeError")
    ELSE
    LET nonce == BigNumberHex(tx[1])
        gasPrice == BigNumberHex(tx[2])
        gasLimit == BigNumberHex(tx[3])
        to == IF Len(tx[4]) > 0 THEN FromBytes(tx[4]).string ELSE EmptyString
        value == BigNumberHex(tx[5])
        data == tx[6]
        v == NormalizedV(BigNumberHex(tx[7]), r.chainID)
        rawTx == ResignTuple(tx, r.chainID)
        raw == RlpEncode(rawTx)
        hash == Keccak(raw)
        vv == BufferToInt(tx[7])
        recovered == Ecrecover(hash, vv, tx, r.chainID, recoverable)
    IN
    IF ~recovered.ok THEN recovered
    \* toBuffer(v.toNumber()) takes no NaN and no negative number.
    ELSE IF v.nan \/ v.n < 0 THEN Throw("invalid integer")
    ELSE [ok |-> TRUE,
          nonce |-> nonce, gasPrice |-> gasPrice, gasLimit |-> gasLimit,
          to |-> to, value |-> value, data |-> data, v |-> v,
          rawTx |-> rawTx, raw |-> raw,
          compactPublicKey |-> [prefix |-> ToBuffer(4), publicKey |-> recovered.publicKey],
          signature |-> SetLength(tx[8], 32) \o SetLength(tx[9], 32) \o ToBuffer(v.n)]

\* Lines 126-139: the request before its payload is attached.
Envelope(f) ==
    [core |-> [version |-> 0,
               nonce |-> BigToString(f.nonce),
               gasLimit |-> BigToString(f.gasLimit),
               gasPrice |-> BigToString(f.gasPrice),
               chainID |-> 0],
     senderPubKey |-> f.compactPublicKey,
     signature |-> f.signature,
     encoding |-> 1]

\* Payload with the test of line 141 inverted.
Payload_Inverted(f, isContract) ==
    IF isContract
    THEN [transfer |-> [amount |-> BigToString(f.value), recipient |-> f.to, payload |-> f.data]]
    ELSE [execution |-> [amount |-> BigToString(f.value), contract |-> f.to, data |-> f.data]]

\* Lines 141-155: the payload attached to core by the classification.
Payload(f, isContract) ==
    IF ~isContract
    THEN [transfer |-> [amount |-> BigToString(f.value), recipient |-> f.to, payload |-> f.data]]
    ELSE [execution |-> [amount |-> BigToString(f.value), contract |-> f.to, data |-> f.data]]

\* Lines 126-155: sendActionReq.action as handed to sendAction.
SendActionReq(f, isContract) ==
    LET e == Envelope(f) IN [e EXCEPT !.core = Payload(f, isContract) @@ e.core]

\* ------------------------------------------------------------------ state
VARIABLES
    \* sendRawTransaction, per call:
    pc,             \* where the call is: idle, awaitGetAccount, awaitSendAction, returned, thrown
    req,            \* its argument: [data, chainID]
    frame,          \* its locals after line 113
    isContract,     \* its local isContract
    getAccountLog,  \* the getAccount requests it made, in order
    sendActionLog,  \* the sendAction requests it made, in order
    answers,        \* what the curve, getAccount and sendAction answered it
    outcome,        \* what the call returned or threw
    \* the instance:
    signer,         \* this.signer: which methods the plugin has, "none" without one
    accounts,       \* this.accounts: the addresses registered, each with its kind
    timer,          \* the constructor's setTimeout callback
    signerAccounts, \* the addresses the signer plugin holds
    op,             \* the account operations in flight
    timerAtLookup   \* per operation: the timer's state when this.accounts was searched

callVars == <<pc, req, frame, isContract, getAccountLog, sendActionLog, answers, outcome>>

accountVars == <<signer, accounts, timer, signerAccounts, op, timerAtLookup>>

vars == <<pc, req, frame, isContract, getAccountLog, sendActionLog, answers, outcome,
          signer, accounts, timer, signerAccounts, op, timerAtLookup>>

Calls == 1..NumCalls

Ops == 1..NumOps

\* ----------------------------------------------------------------- inputs
Addr1 == [i \in 1..20 |-> 160 + i]

ChainIDs == (0..MaxChainID) \cup {4689}

\* The raw v of an input, as its distance from 2 * chainID: 35 and 36 are a
\* replay-protected signature's, 27 and 28 an unprotected one's, 8 and 9
\* would normalise to 0 and 1, 37 is one too many.
VOffsets == {8, 9, 27, 28, 35, 36, 37}

\* The nine fields of a legacy transaction, the integers minimally encoded.
Tuple9(nonce, to, value, data, v) ==
    <<nonce, <<232, 212>>, <<82, 8>>, to, value, data, v, <<7, 7>>, <<0, 8>>>>

\* A list of k fields: the first k of the nine, or the nine and more.
OfArity(t, k) ==
    IF k <= 9 THEN SubSeq(t, 1, k) ELSE t \o [i \in 1..(k - 9) |-> <<i>>]

SampleTuple == Tuple9(<<5>>, Addr1, <<13, 224, 182>>, <<170>>, <<37>>)

Tuples(chainID) ==
    { Tuple9(nonce, to, value, data, v) :
        nonce \in {<< >>, <<5>>},
        to \in {<< >>, Addr1, <<1, 2, 3>>},
        value \in {<< >>, <<13, 224, 182>>},
        data \in {<< >>, <<170>>},
        v \in {<< >>} \cup {IntToBytes(2 * chainID + o) : o \in VOffsets} }

\* What is not the encoding of a list: nothing, a byte, a string, an
\* encoding with a byte after it, an encoding cut short.
OddInputs ==
    LET enc == RlpEncode(SampleTuple) IN
    { << >>, <<5>>, RlpEncodeItem(<<1, 2, 3>>), enc \o <<1>>,
      SubSeq(enc, 1, Len(enc) - 1), SubSeq(enc, 1, Len(enc) - 4),
      <<184, 3, 1, 2>>, <<248, 60, 1, 2>> }

Requests ==
    { [data |-> RlpEncode(OfArity(t, k)), chainID |-> c] :
        c \in ChainIDs, t \in UNION {Tuples(cc) : cc \in ChainIDs}, k \in {9} }
    \cup { [data |-> RlpEncode(OfArity(t, k)), chainID |-> 1] :
        t \in {SampleTuple, Tuple9(<<5>>, << >>, << >>, << >>, <<38>>)}, k \in 0..MaxArity }
    \cup { [data |-> d, chainID |-> 1] : d \in OddInputs }

\* The requests of the concurrent calls: two with a recipient, a creation,
\* a list one field short.
ConcurrentRequests ==
    { [data |-> RlpEncode(SampleTuple), chainID |-> 1],
      [data |-> RlpEncode(Tuple9(<< >>, Addr1, << >>, << >>, <<39>>)), chainID |-> 2],
      [data |-> RlpEncode(Tuple9(<< >>, << >>, << >>, <<170>>, <<40>>)), chainID |-> 2],
      [data |-> RlpEncode(OfArity(SampleTuple, 8)), chainID |-> 1] }

TransportErrors == {"ETIMEDOUT", "UNAVAILABLE"}

ActionHashes == {"h1", "h2"}

\* getAccount's answers: a rejection, a response without accountMeta, a
\* response with it.
GetAccountAnswers ==
    { [kind |-> "reject", error |-> e] : e \in TransportErrors }
    \cup { [kind |-> "resolve", hasMeta |-> FALSE, isContract |-> FALSE] }
    \cup { [kind |-> "resolve", hasMeta |-> TRUE, isContract |-> b] : b \in BOOLEAN }

SendActionAnswers ==
    { [kind |-> "reject", error |-> e] : e \in TransportErrors }
    \cup { [kind |-> "resolve", actionHash |-> h] : h \in ActionHashes }

NoFrame == [ok |-> FALSE]

NoAnswers == [recoverable |-> FALSE, getAccount |-> << >>, sendAction |-> << >>]

NoOutcome == [kind |-> "none"]

NoReq == [data |-> << >>, chainID |-> 0]

\* ---------------------------------------------------------------- actions
NoOp == [pc |-> "idle", kind |-> "", address |-> "", sender |-> "", error |-> ""]

\* No call in flight.
InitCalls ==
    /\ pc = [c \in Calls |-> "idle"]
    /\ req = [c \in Calls |-> NoReq]
    /\ frame = [c \in Calls |-> NoFrame]
    /\ isContract = [c \in Calls |-> TRUE]
    /\ getAccountLog = [c \in Calls |-> << >>]
    /\ sendActionLog = [c \in Calls |-> << >>]
    /\ answers = [c \in Calls |-> NoAnswers]
    /\ outcome = [c \in Calls |-> NoOutcome]

\* new Iotx(hostname, opts), lines 35-57: no account registered, the timer
\* scheduled.  plugin is opts.signer: the methods it has, "none" without one;
\* held is what the plugin's getAccounts would list.
Constructor(plugin, held) ==
    /\ signer = plugin
    /\ signerAccounts = held
    /\ accounts = {}
    /\ timer = "scheduled"
    /\ op = [o \in Ops |-> NoOp]
    /\ timerAtLookup = [o \in Ops |-> "none"]

\* An instance without a signer.
Init == InitCalls /\ Constructor("none", {})

\* StoreLocals with the locals kept in fields of the instance.
StoreLocals_Shared(c, f) == frame' = [x \in Calls |-> f]

\* The locals of lines 93-113 are the call's own (const and let).
StoreLocals(c, f) == frame' = [frame EXCEPT ![c] = f]

\* NeedsLookup asking for every recipient, the empty one too.
NeedsLookup_Always(f) == TRUE

\* Line 116: the recipient is classified when there is one.
NeedsLookup(f) == f.to # EmptyString

\* this.sendAction(sendActionReq) is called: line 157, up to its await.
CallSendAction(c, f, contract) ==
    /\ sendActionLog' = [sendActionLog EXCEPT ![c] = Append(@, SendActionReq(f, contract))]
    /\ pc' = [pc EXCEPT ![c] = "awaitSendAction"]

\* sendRawTransaction(r) is called: lines 91-117 (or, without a recipient,
\* 91-157), up to the first await.
SendRawTransaction(c, r, recoverable) ==
    /\ pc[c] = "idle"
    /\ req' = [req EXCEPT ![c] = r]
    /\ answers' = [answers EXCEPT ![c] = [NoAnswers EXCEPT !.recoverable = recoverable]]
    /\ LET f == Prefix(r, recoverable) IN
       /\ StoreLocals(c, f)
       /\ isContract' = [isContract EXCEPT ![c] = TRUE]
       /\ IF ~f.ok
          THEN /\ pc' = [pc EXCEPT ![c] = "thrown"]
               /\ outcome' = [outcome EXCEPT ![c] = [kind |-> "throw", error |-> f.error]]
               /\ UNCHANGED <<getAccountLog, sendActionLog>>
          ELSE IF NeedsLookup(f)
          THEN /\ getAccountLog' = [getAccountLog EXCEPT ![c] = Append(@, [address |-> f.to])]
               /\ pc' = [pc EXCEPT ![c] = "awaitGetAccount"]
               /\ UNCHANGED <<sendActionLog, outcome>>
          ELSE /\ CallSendAction(c, f, TRUE)
               /\ UNCHANGED <<getAccountLog, outcome>>
    /\ UNCHANGED accountVars

\* GetAccountReturn taking an answer without accountMeta for a contract.
GetAccountReturn_Fallback(c, a) ==
    /\ pc[c] = "awaitGetAccount"
    /\ answers' = [answers EXCEPT ![c].getAccount = Append(@, a)]
    /\ IF a.kind = "reject"
       THEN /\ pc' = [pc EXCEPT ![c] = "thrown"]
            /\ outcome' = [outcome EXCEPT ![c] = [kind |-> "throw", error |-> a.error]]
            /\ UNCHANGED <<isContract, sendActionLog>>
       ELSE /\ isContract' = [isContract EXCEPT ![c] = IF a.hasMeta THEN a.isContract ELSE TRUE]
            /\ CallSendAction(c, frame[c], isContract'[c])
            /\ UNCHANGED outcome
    /\ UNCHANGED <<req, frame, getAccountLog>>
    /\ UNCHANGED accountVars

\* The await of line 117 ends with getAccount's answer: lines 117-157.
GetAccountReturn(c, a) ==
    /\ pc[c] = "awaitGetAccount"
    /\ answers' = [answers EXCEPT ![c].getAccount = Append(@, a)]
    /\ IF a.kind = "reject"
       THEN /\ pc' = [pc EXCEPT ![c] = "thrown"]
            /\ outcome' = [outcome EXCEPT ![c] = [kind |-> "throw", error |-> a.error]]
            /\ UNCHANGED <<isContract, sendActionLog>>
       ELSE IF ~a.hasMeta
       THEN /\ pc' = [pc EXCEPT ![c] = "thrown"]
            /\ outcome' = [outcome EXCEPT ![c] =
                              [kind |-> "throw", error |-> "can't fetch account info"]]
            /\ UNCHANGED <<isContract, sendActionLog>>
       ELSE /\ isContract' = [isContract EXCEPT ![c] = a.isContract]
            /\ CallSendAction(c, frame[c], a.isContract)
            /\ UNCHANGED outcome
    /\ UNCHANGED <<req, frame, getAccountLog>>
    /\ UNCHANGED accountVars

\* SendActionReturn submitting once more after a rejection.
SendActionReturn_Retry(c, a) ==
    /\ pc[c] = "awaitSendAction"
    /\ answers' = [answers EXCEPT ![c].sendAction = Append(@, a)]
    /\ IF a.kind = "reject"
       THEN /\ Len(sendActionLog[c]) < 2
            /\ sendActionLog' = [sendActionLog EXCEPT ![c] = Append(@, @[1])]
            /\ UNCHANGED <<pc, outcome>>
       ELSE /\ pc' = [pc EXCEPT ![c] = "returned"]
            /\ outcome' = [outcome EXCEPT ![c] = [kind |-> "return", value |-> a.actionHash]]
            /\ UNCHANGED sendActionLog
    /\ UNCHANGED <<req, frame, isContract, getAccountLog>>
    /\ UNCHANGED accountVars

\* The await of line 157 ends with sendAction's answer.
SendActionReturn(c, a) ==
    /\ pc[c] = "awaitSendAction"
    /\ answers' = [answers EXCEPT ![c].sendAction = Append(@, a)]
    /\ IF a.kind = "reject"
       THEN /\ pc' = [pc EXCEPT ![c] = "thrown"]
            /\ outcome' = [outcome EXCEPT ![c] = [kind |-> "throw", error |-> a.error]]
       ELSE /\ pc' = [pc EXCEPT ![c] = "returned"]
            /\ outcome' = [outcome EXCEPT ![c] = [kind |-> "return", value |-> a.actionHash]]
    /\ UNCHANGED <<req, frame, isContract, getAccountLog, sendActionLog>>
    /\ UNCHANGED accountVars

\* The caller has the promise's result; the next call starts afresh.
Settle(c) ==
    /\ pc[c] \in {"returned", "thrown"}
    /\ pc' = [pc EXCEPT ![c] = "idle"]
    /\ req' = [req EXCEPT ![c] = NoReq]
    /\ frame' = [frame EXCEPT ![c] = NoFrame]
    /\ isContract' = [isContract EXCEPT ![c] = TRUE]
    /\ getAccountLog' = [getAccountLog EXCEPT ![c] = << >>]
    /\ sendActionLog' = [sendActionLog EXCEPT ![c] = << >>]
    /\ answers' = [answers EXCEPT ![c] = NoAnswers]
    /\ outcome' = [outcome EXCEPT ![c] = NoOutcome]
    /\ UNCHANGED accountVars

\* One call at a time, over every request.
Next ==
    \/ \E r \in Requests, recoverable \in BOOLEAN : SendRawTransaction(1, r, recoverable)
    \/ \E a \in GetAccountAnswers : GetAccountReturn(1, a)
    \/ \E a \in SendActionAnswers : SendActionReturn(1, a)
    \/ Settle(1)

Spec == Init /\ [][Next]_vars

\* Calls in flight together.
NextConcurrent ==
    \E c \in Calls :
        \/ \E r \in ConcurrentRequests : SendRawTransaction(c, r, TRUE)
        \/ \E a \in GetAccountAnswers : GetAccountReturn(c, a)
        \/ \E a \in SendActionAnswers : SendActionReturn(c, a)
        \/ Settle(c)

SpecConcurrent == Init /\ [][NextConcurrent]_vars

\* --------------------------------------------------------------- accounts
RemoteAddrs == {"ioRemoteA", "ioRemoteB"}

LocalAddrs == {"ioLocal"}

Addresses == RemoteAddrs \cup LocalAddrs \cup {"ioNobody"}

OpKinds == {"tryGetAccount", "sendTransfer", "deployContract", "executeContract",
            "claimFromRewardingFund"}

\* accounts.getAccount(address): the account registered under it, "" for
\* undefined.
Registered(address) ==
    IF \E a \in accounts : a.address = address THEN address ELSE ""

\* The address registered as an account of the given kind.
AddAccount(set, address, kind) ==
    {a \in set : a.address # address} \cup {[address |-> address, kind |-> kind]}

\* The timer's callback, lines 43-46: without a signer that has getAccounts
\* it does nothing, with one it calls getAccounts and waits.
TimerFires ==
    /\ timer = "scheduled"
    /\ timer' = IF signer \in {"getAccounts", "both"} THEN "fetching" ELSE "done"
    /\ UNCHANGED <<signer, accounts, signerAccounts, op, timerAtLookup>>
    /\ UNCHANGED callVars

\* GetAccountsResolves registering the first account listed only.
GetAccountsResolves_FirstOnly ==
    /\ timer = "fetching"
    /\ accounts' = IF signerAccounts = {} THEN accounts
                   ELSE AddAccount(accounts, CHOOSE x \in signerAccounts : TRUE, "remote")
    /\ timer' = "done"
    /\ UNCHANGED <<signer, signerAccounts, op, timerAtLookup>>
    /\ UNCHANGED callVars

\* signer.getAccounts() resolves, lines 46-51: every account it lists is
\* registered as a RemoteAccount.
GetAccountsResolves ==
    /\ timer = "fetching"
    /\ accounts' = {a \in accounts : a.address \notin signerAccounts}
                       \cup {[address |-> x, kind |-> "remote"] : x \in signerAccounts}
    /\ timer' = "done"
    /\ UNCHANGED <<signer, signerAccounts, op, timerAtLookup>>
    /\ UNCHANGED callVars

\* signer.getAccounts() rejects, lines 52-54: the callback throws.
GetAccountsRejects ==
    /\ timer = "fetching"
    /\ timer' = "failed"
    /\ UNCHANGED <<signer, accounts, signerAccounts, op, timerAtLookup>>
    /\ UNCHANGED callVars

\* The program registers an account of its own in the public this.accounts.
AddLocalAccount(address) ==
    /\ [address |-> address, kind |-> "local"] \notin accounts
    /\ accounts' = AddAccount(accounts, address, "local")
    /\ UNCHANGED <<signer, timer, signerAccounts, op, timerAtLookup>>
    /\ UNCHANGED callVars

\* What follows tryGetAccount's answer sender in an operation: tryGetAccount
\* returns it, the others go on to execute with it (lines 64-67, 75-88).
WithSender(o, kind, address, sender) ==
    IF sender = ""
    THEN [NoOp EXCEPT !.pc = "thrown", !.kind = kind, !.address = address,
                      !.error = "cannot find account"]
    ELSE [NoOp EXCEPT !.pc = IF kind = "tryGetAccount" THEN "returned" ELSE "executing",
                      !.kind = kind, !.address = address, !.sender = sender]

\* An operation is called, up to its first await: deployContract and
\* executeContract parse a string abi first (lines 207-213, 230-236); then
\* tryGetAccount asks the signer, if it has getAccount, and else searches
\* this.accounts (lines 60-63).
StartOp(o, kind, address, abiOk) ==
    /\ op[o].pc = "idle"
    /\ IF kind \in {"deployContract", "executeContract"} /\ ~abiOk
       THEN /\ op' = [op EXCEPT ![o] = [NoOp EXCEPT !.pc = "thrown", !.kind = kind,
                         !.address = address, !.error = "parse abi to ABIDefinition error"]]
            /\ UNCHANGED timerAtLookup
       ELSE IF signer \in {"getAccount", "both"}
       THEN /\ op' = [op EXCEPT ![o] = [NoOp EXCEPT !.pc = "awaitSigner", !.kind = kind,
                                                     !.address = address]]
            /\ UNCHANGED timerAtLookup
       ELSE /\ op' = [op EXCEPT ![o] = WithSender(o, kind, address, Registered(address))]
            /\ timerAtLookup' = [timerAtLookup EXCEPT ![o] = timer]
    /\ UNCHANGED <<signer, accounts, timer, signerAccounts>>
    /\ UNCHANGED callVars

\* signer.getAccount(address) answers (line 62): an account, undefined, or a
\* rejection.
SignerGetAccountReturn(o, a) ==
    /\ op[o].pc = "awaitSigner"
    /\ op' = [op EXCEPT ![o] =
                IF a = "reject" THEN [@ EXCEPT !.pc = "thrown", !.error = "signer error"]
                ELSE WithSender(o, @.kind, @.address, IF a = "account" THEN @.address ELSE "")]
    /\ UNCHANGED <<signer, accounts, timer, signerAccounts, timerAtLookup>>
    /\ UNCHANGED callVars

\* The caller has the operation's result.
SettleOp(o) ==
    /\ op[o].pc \in {"returned", "executing", "thrown"}
    /\ op' = [op EXCEPT ![o] = NoOp]
    /\ timerAtLookup' = [timerAtLookup EXCEPT ![o] = "none"]
    /\ UNCHANGED <<signer, accounts, timer, signerAccounts>>
    /\ UNCHANGED callVars

InitAccounts ==
    /\ InitCalls
    /\ \E plugin \in {"none", "getAccounts", "getAccount", "both"} :
       \E held \in SUBSET RemoteAddrs :
          Constructor(plugin, IF plugin = "none" THEN {} ELSE held)

NextAccounts ==
    \/ TimerFires
    \/ GetAccountsResolves
    \/ GetAccountsRejects
    \/ \E address \in LocalAddrs : AddLocalAccount(address)
    \/ \E o \in Ops, kind \in OpKinds, address \in Addresses, abiOk \in BOOLEAN :
          StartOp(o, kind, address, abiOk)
    \/ \E o \in Ops, a \in {"account", "undefined", "reject"} : SignerGetAccountReturn(o, a)
    \/ \E o \in Ops : SettleOp(o)

SpecAccounts == InitAccounts /\ [][NextAccounts]_vars

\* ----------------------------------------------------------------- claims
\* What rlp.decode made of call c's input.
Decoded(c) == RlpDecode(req[c].data)

\* Call c's input decoded to a list of at least n fields.
HasFields(c, n) ==
    /\ pc[c] # "idle"
    /\ Decoded(c).ok
    /\ Decoded(c).isList
    /\ Len(Decoded(c).data) >= n

Last(q) == q[Len(q)]

HasTransfer(e) == "transfer" \in DOMAIN e.core

HasExecution(e) == "execution" \in DOMAIN e.core

\* C1: every envelope handed to sendAction carries exactly one of transfer
\* and execution: execution when the decoded recipient is empty or the
\* lookup answered isContract = true, transfer when the recipient is not
\* empty and the lookup answered isContract = false.
C1_PayloadVariant ==
    \A c \in Calls : \A i \in DOMAIN sendActionLog[c] :
        LET e == sendActionLog[c][i]
            recipient == Decoded(c).data[4]
            looked == answers[c].getAccount
        IN  /\ HasTransfer(e) # HasExecution(e)
            /\ recipient = << >> => HasExecution(e)
            /\ recipient # << >> =>
                  /\ looked # << >>
                  /\ Last(looked).isContract => HasExecution(e)
                  /\ ~Last(looked).isContract => HasTransfer(e)

\* A transfer of zero value with empty data was handed to sendAction.
C1_Witness ==
    \E c \in Calls :
        /\ sendActionLog[c] # << >>
        /\ HasTransfer(sendActionLog[c][1])
        /\ Decoded(c).data[5] = << >>
        /\ Decoded(c).data[6] = << >>

\* C2: the envelope's core.chainID is 0 for every chain id of the request,
\* and the 7th field of the tuple that is encoded and hashed is the
\* request's chain id.
C2_ChainIdDivergence ==
    \A c \in Calls :
        /\ \A i \in DOMAIN sendActionLog[c] : sendActionLog[c][i].core.chainID = 0
        /\ frame[c].ok =>
              /\ BufferToInt(frame[c].rawTx[7]) = req[c].chainID
              /\ BufferToInt(RlpDecode(frame[c].raw).data[7]) = req[c].chainID

\* An envelope was submitted for a request whose chain id is 4689.
C2_Witness ==
    \E c \in Calls : sendActionLog[c] # << >> /\ req[c].chainID = 4689

\* C3: with a recipient, sendAction is called only after getAccount has
\* answered with account metadata; when getAccount fails or answers without
\* accountMeta the call throws and sendAction was never called.
C3_LookupBeforeSubmission ==
    \A c \in Calls :
        (frame[c].ok /\ frame[c].to # EmptyString) =>
            LET looked == answers[c].getAccount IN
            /\ sendActionLog[c] # << >> =>
                  /\ Len(looked) = 1
                  /\ looked[1].kind = "resolve"
                  /\ looked[1].hasMeta
            /\ (looked # << >> /\ (looked[1].kind = "reject" \/ ~looked[1].hasMeta)) =>
                  /\ sendActionLog[c] = << >>
                  /\ pc[c] = "thrown"
                  /\ outcome[c].kind = "throw"

\* A lookup answered without accountMeta and the call has thrown.
C3_Witness ==
    \E c \in Calls :
        /\ pc[c] = "thrown"
        /\ answers[c].getAccount # << >>
        /\ answers[c].getAccount[1].kind = "resolve"
        /\ ~answers[c].getAccount[1].hasMeta

\* C4 as stated: a call that returned made exactly one getAccount and exactly
\* one sendAction, with or without a recipient.
C4_OneLookupAlways ==
    \A c \in Calls :
        pc[c] = "returned" => Len(getAccountLog[c]) = 1 /\ Len(sendActionLog[c]) = 1

\* C4 amended: a call that returned made exactly one sendAction, and exactly
\* one getAccount when the decoded recipient is not empty, none when it is.
C4_OneLookupWithRecipient ==
    \A c \in Calls :
        pc[c] = "returned" =>
            /\ Len(sendActionLog[c]) = 1
            /\ Len(getAccountLog[c]) = IF Decoded(c).data[4] = << >> THEN 0 ELSE 1
            /\ Len(getAccountLog[c]) = 1 =>
                  getAccountLog[c][1].address.payload = Decoded(c).data[4]

\* A call without a recipient has returned.
C4_Witness ==
    \E c \in Calls : pc[c] = "returned" /\ Decoded(c).data[4] = << >>

\* C5: a call makes at most one sendAction; when it resolves the call returns
\* the response's actionHash, when it rejects the call throws the transport's
\* error and nothing was submitted again; a call that throws returns no
\* action identifier.
C5_SingleAttempt ==
    \A c \in Calls :
        LET sent == answers[c].sendAction IN
        /\ Len(sendActionLog[c]) <= 1
        /\ Len(sent) <= Len(sendActionLog[c])
        /\ sent # << >> =>
              /\ sent[1].kind = "resolve" =>
                    /\ pc[c] = "returned"
                    /\ outcome[c] = [kind |-> "return", value |-> sent[1].actionHash]
              /\ sent[1].kind = "reject" =>
                    /\ pc[c] = "thrown"
                    /\ outcome[c] = [kind |-> "throw", error |-> sent[1].error]
        /\ pc[c] = "thrown" => outcome[c].kind = "throw" /\ "value" \notin DOMAIN outcome[c]
        /\ pc[c] = "returned" => sent # << >> /\ sent[1].kind = "resolve"

\* sendAction rejected and the call has thrown the transport's error.
C5_Witness ==
    \E c \in Calls :
        /\ pc[c] = "thrown"
        /\ answers[c].sendAction # << >>
        /\ outcome[c].error \in TransportErrors

\* What a call with request r shows after the answers in a, had it run
\* alone: where it is, its getAccount and sendAction requests, its result.
Alone(r, a) ==
    LET f == Prefix(r, a.recoverable)
        afterSend(lookups, contract) ==
            LET sent == <<SendActionReq(f, contract)>> IN
            IF a.sendAction = << >>
            THEN [pc |-> "awaitSendAction", lookups |-> lookups, sent |-> sent,
                  outcome |-> NoOutcome]
            ELSE IF a.sendAction[1].kind = "reject"
            THEN [pc |-> "thrown", lookups |-> lookups, sent |-> sent,
                  outcome |-> [kind |-> "throw", error |-> a.sendAction[1].error]]
            ELSE [pc |-> "returned", lookups |-> lookups, sent |-> sent,
                  outcome |-> [kind |-> "return", value |-> a.sendAction[1].actionHash]]
    IN
    IF ~f.ok
    THEN [pc |-> "thrown", lookups |-> << >>, sent |-> << >>,
          outcome |-> [kind |-> "throw", error |-> f.error]]
    ELSE IF f.to = EmptyString THEN afterSend(<< >>, TRUE)
    ELSE LET lookups == <<[address |-> f.to]>> IN
         IF a.getAccount = << >>
         THEN [pc |-> "awaitGetAccount", lookups |-> lookups, sent |-> << >>,
               outcome |-> NoOutcome]
         ELSE IF a.getAccount[1].kind = "reject"
         THEN [pc |-> "thrown", lookups |-> lookups, sent |-> << >>,
               outcome |-> [kind |-> "throw", error |-> a.getAccount[1].error]]
         ELSE IF ~a.getAccount[1].hasMeta
         THEN [pc |-> "thrown", lookups |-> lookups, sent |-> << >>,
               outcome |-> [kind |-> "throw", error |-> "can't fetch account info"]]
         ELSE afterSend(lookups, a.getAccount[1].isContract)

\* C6: with calls in flight together, what each call asks of getAccount, hands
\* to sendAction and returns or throws is what it would have been had the
\* call run alone with its own request and the answers given to it.
C6_CallsIndependent ==
    \A c \in Calls :
        pc[c] # "idle" =>
            [pc |-> pc[c], lookups |-> getAccountLog[c], sent |-> sendActionLog[c],
             outcome |-> outcome[c]] = Alone(req[c], answers[c])

\* Two calls with different requests are in flight at once, one past its
\* lookup and one waiting for it.
C6_Witness ==
    \E c1, c2 \in Calls :
        /\ c1 # c2
        /\ req[c1] # req[c2]
        /\ pc[c1] = "awaitSendAction"
        /\ answers[c1].getAccount # << >>
        /\ pc[c2] = "awaitGetAccount"

\* The raw v of call c's input, the 7th field as a number.
RawV(c) == BufferToInt(Decoded(c).data[7])

C8_ExactlyNineFields ==
    \A c \in Calls :
        (/\ pc[c] # "idle"
         /\ Decoded(c).ok
         /\ (~Decoded(c).isList \/ Len(Decoded(c).data) # 9)) =>
            /\ pc[c] = "thrown"
            /\ getAccountLog[c] = << >>
            /\ sendActionLog[c] = << >>

\* C9: the tuple that is encoded and hashed has 9 fields: the first six are
\* the decoded nonce, gasPrice, gasLimit, to, value and data in order, the
\* seventh is the request's chain id, the last two are empty whatever r and
\* s were; and its encoding decodes back to it.
C9_ResignTuple ==
    \A c \in Calls :
        (frame[c].ok /\ Len(Decoded(c).data) = 9) =>
            LET tx == Decoded(c).data
                rawTx == frame[c].rawTx
            IN  /\ Len(rawTx) = 9
                /\ \A i \in 1..6 : rawTx[i] = tx[i]
                /\ BufferToInt(rawTx[7]) = req[c].chainID
                /\ rawTx[8] = << >>
                /\ rawTx[9] = << >>
                /\ frame[c].raw = RlpEncode(<<tx[1], tx[2], tx[3], tx[4], tx[5], tx[6],
                                             rawTx[7], << >>, << >>>>)
                /\ RlpDecode(frame[c].raw).data = rawTx

\* A tuple was rebuilt from a transaction with a recipient, a value, data
\* and a non-empty r and s, for chain id 4689.
C9_Witness ==
    \E c \in Calls :
        /\ frame[c].ok
        /\ req[c].chainID = 4689
        /\ \A i \in {4, 5, 6, 8, 9} : Decoded(c).data[i] # << >>
        /\ Len(Decoded(c).data) = 9

\* C10: with a signer that has getAccounts and no getAccount, an operation on
\* an address only the signer holds throws 'cannot find account' when its
\* tryGetAccount ran before the timer's callback had registered the accounts,
\* and gets the account when it ran after; remote accounts are registered
\* only once the callback is done, so never when getAccounts failed.
C10_RegisteredByTimerOnly ==
    /\ \A o \in Ops :
          (/\ signer = "getAccounts"
           /\ timerAtLookup[o] # "none"
           /\ op[o].address \in signerAccounts) =>
              IF timerAtLookup[o] = "done"
              THEN /\ op[o].pc \in {"returned", "executing"}
                   /\ op[o].sender = op[o].address
              ELSE /\ op[o].pc = "thrown"
                   /\ op[o].error = "cannot find account"
    /\ timer # "done" => \A a \in accounts : a.kind # "remote"
    /\ (signer = "getAccounts" /\ timer = "done") =>
          \A x \in signerAccounts : [address |-> x, kind |-> "remote"] \in accounts

\* An operation has thrown 'cannot find account' for an address the signer
\* holds, and the callback has registered the address since.
C10_Witness ==
    \E o \in Ops :
        /\ signer = "getAccounts"
        /\ op[o].pc = "thrown"
        /\ op[o].kind = "sendTransfer"
        /\ op[o].address \in signerAccounts
        /\ timerAtLookup[o] = "fetching"
        /\ timer = "done"

=============================================================================
